---- MODULE Spec2Model ----
(***************************************************************************)
(* Model of the two configuration documents of the repository:             *)
(*   webpack.config.js          - the bundler configuration                *)
(*   deploy/nginx/opencodelists - the reverse-proxy site configuration     *)
(* The configuration values are transcribed from the files.  Each          *)
(* directive is given the meaning its consuming tool documents for it      *)
(* (webpack's entry / output / resolve / module.rules, nginx's listen,     *)
(* server_name, client_max_body_size, location, proxy_set_header,          *)
(* proxy_pass, upstream server and keepalive).  File names, paths and      *)
(* header values are sequences of one-character strings, so that the       *)
(* regular expression, the file name template and the location prefix are  *)
(* computed character by character.                                        *)
(***************************************************************************)
EXTENDS Integers, Sequences, FiniteSets, TLC

VARIABLES
    \* ---- bundler build
    dirname,    \* __dirname: the directory holding webpack.config.js
    fs,         \* files that exist, as paths relative to dirname
    modules,    \* modules the build has processed
    assets,     \* output files the build has emitted
    \* ---- proxy request handling
    pc,         \* phase of the request being handled
    req,        \* the client request being handled
    upreq,      \* the request sent to the upstream, NoRequest until built
    outcome,    \* how the request ended
    fails,      \* failed attempts recorded for the upstream server
    checked,    \* time of the last recorded failure
    now,        \* the proxy's clock, in seconds
    errors,     \* failed upstream attempts written to the error log
    \* ---- upstream keep-alive cache
    nworkers,   \* number of worker processes running this configuration
    idle,       \* idle keep-alive connections cached by each worker
    lastPeer    \* the upstream address of the latest connection handed out

buildVars == <<dirname, fs, modules, assets>>
proxyVars == <<pc, req, upreq, outcome, fails, checked, now, errors>>
cacheVars == <<nworkers, idle, lastPeer>>
vars == <<dirname, fs, modules, assets, pc, req, upreq, outcome, fails,
          checked, now, errors, nworkers, idle, lastPeer>>

-----------------------------------------------------------------------------
(* Sequences of characters.                                                *)

StartsWith(s, p) == Len(s) >= Len(p) /\ SubSeq(s, 1, Len(p)) = p

EndsWith(s, p) ==
    Len(s) >= Len(p) /\ SubSeq(s, Len(s) - Len(p) + 1, Len(s)) = p

NotFound == <<>>

-----------------------------------------------------------------------------
(* webpack.config.js                                                       *)

\* entry: the names of the bundles
EntryNames ==
    { <<"b","u","i","l","d","e","r">>,
      <<"c","o","d","e","l","i","s","t">>,
      <<"c","o","d","e","l","i","s","t","-","v","e","r","s","i","o","n">>,
      <<"t","r","e","e">> }

\* entry: the source file of each bundle
entry(n) ==
    CASE n = <<"b","u","i","l","d","e","r">> ->
           <<".","/","s","t","a","t","i","c","/","s","r","c","/","j","s","/",
             "b","u","i","l","d","e","r","/","i","n","d","e","x",".","j","s","x">>
      [] n = <<"c","o","d","e","l","i","s","t">> ->
           <<".","/","s","t","a","t","i","c","/","s","r","c","/","j","s","/",
             "c","o","d","e","l","i","s","t",".","j","s">>
      [] n = <<"c","o","d","e","l","i","s","t","-","v","e","r","s","i","o","n">> ->
           <<".","/","s","t","a","t","i","c","/","s","r","c","/","j","s","/",
             "c","o","d","e","l","i","s","t","-","v","e","r","s","i","o","n",
             ".","j","s">>
      [] n = <<"t","r","e","e">> ->
           <<".","/","s","t","a","t","i","c","/","s","r","c","/","j","s","/",
             "t","r","e","e","/","i","n","d","e","x",".","j","s","x">>

\* path.resolve(base, segments...): every segment here is relative, so each is
\* joined to what precedes it with a "/"
RECURSIVE path_resolve(_, _)
path_resolve(base, segs) ==
    IF segs = <<>> THEN base
    ELSE IF StartsWith(Head(segs), <<"/">>)
         THEN path_resolve(Head(segs), Tail(segs))
         ELSE path_resolve(base \o <<"/">> \o Head(segs), Tail(segs))

\* output.path
output_path(dir) ==
    path_resolve(dir, << <<"s","t","a","t","i","c">>, <<"d","i","s","t">>,
                         <<"j","s">> >>)

\* a file name without the [name] placeholder
output_filename_fixed == <<"b","u","n","d","l","e",".","j","s">>

\* output.filename
output_filename ==
    <<"[","n","a","m","e","]",".","b","u","n","d","l","e",".","j","s">>

NamePlaceholder == <<"[","n","a","m","e","]">>

\* the file name template with every [name] replaced by the chunk's name
RECURSIVE TemplateName(_, _)
TemplateName(t, n) ==
    IF t = <<>> THEN <<>>
    ELSE IF StartsWith(t, NamePlaceholder)
         THEN n \o TemplateName(SubSeq(t, Len(NamePlaceholder) + 1, Len(t)), n)
         ELSE <<Head(t)>> \o TemplateName(Tail(t), n)

\* the extensions in the opposite order
resolve_extensions_swapped == << <<".","j","s","x">>, <<".","j","s">> >>

\* resolve.extensions, in the order tried
resolve_extensions == << <<".","j","s">>, <<".","j","s","x">> >>

\* the test /\.js$/
RuleTest_js(path) ==
    \E i \in 1..Len(path) :
        /\ i + 2 = Len(path)
        /\ SubSeq(path, i, i + 2) = <<".","j","s">>

\* the test /\.jsx?$/
RuleTest_jsx_optional(path) ==
    \/ \E i \in 1..Len(path) :
        /\ i + 3 = Len(path)
        /\ SubSeq(path, i, i + 3) = <<".","j","s","x">>
    \/ \E i \in 1..Len(path) :
        /\ i + 2 = Len(path)
        /\ SubSeq(path, i, i + 2) = <<".","j","s">>

\* the test of the only rule of module.rules: /\.jsx$/
RuleTest(path) ==
    \E i \in 1..Len(path) :
        /\ i + 3 = Len(path)
        /\ SubSeq(path, i, i + 3) = <<".","j","s","x">>

\* module.rules: the loaders applied to a resource
Loaders(path) == IF RuleTest(path) THEN <<"babel-loader">> ELSE <<>>

\* Files as absolute paths
AbsFiles(dir, files) == { dir \o <<"/">> \o f : f \in files }

IsDirectory(p, files) == \E f \in files : StartsWith(f, p \o <<"/">>) /\ Len(f) > Len(p) + 1

\* the first of the candidates base, base + ext (ext in the order of exts)
\* that is an existing file
RECURSIVE FirstExisting(_, _, _)
FirstExisting(base, exts, files) ==
    IF exts = <<>> THEN NotFound
    ELSE IF (base \o Head(exts)) \in files THEN base \o Head(exts)
         ELSE FirstExisting(base, Tail(exts), files)

\* a path tried as a file: as written (the resolver does so by default, and
\* the entries, which name their extension, are found this way), then with
\* each extension appended
AsFile(base, files) ==
    IF base \in files THEN base
    ELSE FirstExisting(base, resolve_extensions, files)

\* a path tried as a directory: its index file (the resolver's default main
\* file, which the configuration leaves in place)
AsDirectory(base, files) ==
    IF IsDirectory(base, files)
    THEN AsFile(base \o <<"/","i","n","d","e","x">>, files)
    ELSE NotFound

\* a relative request ("./...") resolved from the directory context
Resolve(context, request, files) ==
    LET base == context \o SubSeq(request, 2, Len(request))
        f == AsFile(base, files)
    IN  IF f # NotFound THEN f ELSE AsDirectory(base, files)

\* the directory part of a path: what precedes its last "/"
RECURSIVE DirOf(_)
DirOf(path) ==
    IF path = <<>> THEN <<>>
    ELSE IF path[Len(path)] = "/" THEN SubSeq(path, 1, Len(path) - 1)
         ELSE DirOf(SubSeq(path, 1, Len(path) - 1))

-----------------------------------------------------------------------------
(* The build: inputs                                                       *)

\* directories the configuration file may be installed in
Dirnames == { <<"/","a","p","p">>, <<"/","s","r","v","/","o","c","l">> }

\* the directory of the entry sources, relative to dirname
SrcDir == <<"s","t","a","t","i","c","/","s","r","c","/","j","s","/">>

\* the entry sources as paths relative to dirname (the "./" dropped)
EntrySources == { SubSeq(entry(n), 3, Len(entry(n))) : n \in EntryNames }

\* an import written without a file extension
ImportRequest == <<".","/","m">>

\* files that may stand beside the entry sources
ImportCandidates ==
    { SrcDir \o s : s \in
        { <<"m">>,
          <<"m",".","j","s">>,
          <<"m",".","j","s","x">>,
          <<"m",".","j","s","o","n">>,
          <<"m","/","i","n","d","e","x",".","j","s">>,
          <<"m","/","i","n","d","e","x",".","j","s","x">> } }

\* a path is a file or a directory, not both
ConsistentFs(files) ==
    \A f \in files : ~ IsDirectory(f, files)

Built(n) == \E m \in modules : m.chunk = n /\ m.request = entry(n)

Imported(n) == \E m \in modules : m.chunk = n /\ m.request = ImportRequest

-----------------------------------------------------------------------------
(* The build: steps                                                        *)

\* the entry source of bundle n is resolved from the configuration's
\* directory and run through the rules
BuildEntry(n) ==
    /\ assets = {}
    /\ ~ Built(n)
    /\ LET r == Resolve(dirname, entry(n), AbsFiles(dirname, fs))
       IN  modules' = modules \cup
               { [chunk |-> n, request |-> entry(n), issuer |-> <<>>,
                  resource |-> r, loaders |-> Loaders(r)] }
    /\ UNCHANGED <<dirname, fs, assets>>

\* an import met in the entry module of bundle n is resolved from that
\* module's directory and, when found, run through the rules
ResolveImport(n) ==
    /\ assets = {}
    /\ Built(n)
    /\ ~ Imported(n)
    /\ LET e == CHOOSE m \in modules : m.chunk = n /\ m.request = entry(n)
           r == Resolve(DirOf(e.resource), ImportRequest, AbsFiles(dirname, fs))
       IN  modules' = modules \cup
               { [chunk |-> n, request |-> ImportRequest, issuer |-> e.resource,
                  resource |-> r, loaders |-> Loaders(r)] }
    /\ UNCHANGED <<dirname, fs, assets>>

\* once every entry is built, one output file is written per entry
Emit ==
    /\ assets = {}
    /\ \A n \in EntryNames : Built(n)
    /\ assets' = { [chunk |-> n, dir |-> output_path(dirname),
                    file |-> TemplateName(output_filename, n)] : n \in EntryNames }
    /\ UNCHANGED <<dirname, fs, modules>>

-----------------------------------------------------------------------------
(* deploy/nginx/opencodelists                                              *)

UnixSocket == "unix:/tmp/gunicorn-opencodelists.sock"

\* upstream opencodelists: its server lines.  max_fails is not given and has
\* its default, 1; fail_timeout is given as 0
upstream_servers ==
    << [addr |-> UnixSocket, fail_timeout |-> 0, max_fails |-> 1,
        down |-> FALSE] >>

\* upstream opencodelists: keepalive
keepalive == 60

\* the listeners without the line for IPv6
Listeners_ipv4_only == { [family |-> "ipv4", port |-> 80, ssl |-> FALSE] }

\* listen: the addresses the server block accepts connections on
Listeners ==
    { [family |-> "ipv4", port |-> 80, ssl |-> FALSE],
      [family |-> "ipv6", port |-> 80, ssl |-> FALSE] }

\* server_name of each server block of the file, in the order written
server_names == << "codelists.opensafely.org" >>

\* the limit when the directive is left out: 1M
client_max_body_size_default == 1024 * 1024

\* client_max_body_size 200M, in bytes
client_max_body_size == 200 * 1024 * 1024

\* a location for one subtree only
location_prefixes_subtree == << <<"/","a","/">> >>

\* the prefix of each location block of the server, in the order written
location_prefixes == << <<"/">> >>

\* proxy_pass of the location
proxy_pass == "opencodelists"

\* proxy_set_header: each header with the variable its value is taken from
proxy_set_header ==
    << <<"X-Forwarded-For", "$proxy_add_x_forwarded_for">>,
       <<"X-Forwarded-Proto", "$scheme">>,
       <<"X-Real-IP", "$remote_addr">>,
       <<"Host", "$http_host">> >>

-----------------------------------------------------------------------------
(* How the proxy reads these directives.  A header value is a sequence of  *)
(* items (the comma-separated elements of the header); the empty sequence  *)
(* stands for a header that is absent.                                     *)

NoHeader == <<>>

\* the variables with $remote_addr in the place of $proxy_add_x_forwarded_for
Variable_remote_addr_only(v, r) ==
    CASE v = "$proxy_add_x_forwarded_for" -> <<r.addr>>
      [] v = "$scheme" -> <<r.scheme>>
      [] v = "$remote_addr" -> <<r.addr>>
      [] v = "$http_host" -> r.host

\* the value of a variable for request r
Variable(v, r) ==
    CASE v = "$proxy_add_x_forwarded_for" -> r.xff \o <<r.addr>>
      [] v = "$scheme" -> <<r.scheme>>
      [] v = "$remote_addr" -> <<r.addr>>
      [] v = "$http_host" -> r.host

\* the value proxy_set_header gives header h for request r
SetHeaderValue(h, r) ==
    LET i == CHOOSE j \in 1..Len(proxy_set_header) : proxy_set_header[j][1] = h
    IN  Variable(proxy_set_header[i][2], r)

SetHeaderNames == { proxy_set_header[j][1] : j \in 1..Len(proxy_set_header) }

\* the headers of the request passed to the upstream: a header whose value
\* is empty is not passed
UpstreamHeaders(r) ==
    [ h \in { g \in SetHeaderNames : SetHeaderValue(g, r) # <<>> } |->
          SetHeaderValue(h, r) ]

\* the listener a connection arrives on, if any
ListenerFor(family, port) ==
    { l \in Listeners : l.family = family /\ l.port = port }

\* the server block that handles a request: the one named by the Host
\* header, else the default server, which is the first of the file
VirtualHost(host) ==
    IF \E i \in 1..Len(server_names) : host = <<server_names[i]>>
    THEN CHOOSE i \in 1..Len(server_names) : host = <<server_names[i]>>
    ELSE 1

\* the location that handles a path: the longest matching prefix, 0 if none
Location(path) ==
    LET matching == { i \in 1..Len(location_prefixes) :
                         StartsWith(path, location_prefixes[i]) }
    IN  IF matching = {} THEN 0
        ELSE CHOOSE i \in matching :
                 \A j \in matching :
                     Len(location_prefixes[j]) <= Len(location_prefixes[i])

\* a group of one server treated like any other group
Single_never(servers) == FALSE

\* an upstream group of one server: max_fails and fail_timeout are not
\* consulted, and failures are not counted against the server
Single(servers) == Len(servers) = 1

\* whether server i of the group may be tried now
PeerUsable(i, f, c, t) ==
    LET s == upstream_servers[i]
    IN  /\ ~ s.down
        /\ \/ Single(upstream_servers)
           \/ ~ (s.max_fails > 0 /\ f[i] >= s.max_fails
                   /\ t - c[i] <= s.fail_timeout)

\* the server a request is sent to: the first usable one, 0 if none
GetPeer(f, c, t) ==
    LET usable == { i \in 1..Len(upstream_servers) : PeerUsable(i, f, c, t) }
    IN  IF usable = {} THEN 0
        ELSE CHOOSE i \in usable : \A j \in usable : i <= j

-----------------------------------------------------------------------------
(* Requests: inputs                                                        *)

MaxErrors == 2
MaxTime == 1
MaxWorkers == 2

Families == { "ipv4", "ipv6" }
Ports == { 80, 443 }
ClientAddrs == { "203.0.113.7", "198.51.100.9" }
Versions == { "1.0", "1.1" }
Hosts == { NoHeader, <<"codelists.opensafely.org">>, <<"example.org">> }
Paths == { <<"/">>, <<"/","a">>, <<"/","a","/","b">> }
Lengths == { 0, 200 * 1024 * 1024, 200 * 1024 * 1024 + 1 }
ForwardedFors == { NoHeader, <<"192.0.2.1">> }

NoRequest ==
    [family |-> "", port |-> 0, addr |-> "", scheme |-> "", version |-> "",
     host |-> NoHeader, path |-> <<>>, length |-> 0, xff |-> NoHeader,
     server |-> 0, location |-> 0]

NoUpstreamRequest == [upstream |-> "", peer |-> 0, addr |-> "", headers |-> <<>>]

NoFailures == [i \in 1..Len(upstream_servers) |-> 0]

-----------------------------------------------------------------------------
(* Requests: steps                                                         *)

\* a client connects to an address and port
Connect(family, port, addr) ==
    /\ pc = "idle"
    /\ LET ls == ListenerFor(family, port)
           r == [NoRequest EXCEPT !.family = family, !.port = port, !.addr = addr]
       IN  IF ls = {}
           THEN /\ req' = r
                /\ pc' = "done"
                /\ outcome' = "refused"
           ELSE /\ req' = [r EXCEPT !.scheme =
                              IF (CHOOSE l \in ls : TRUE).ssl THEN "https" ELSE "http"]
                /\ pc' = "accepted"
                /\ outcome' = outcome
    /\ UNCHANGED <<upreq, fails, checked, now, errors>>

\* the request line and headers are read and the server block is chosen;
\* an HTTP/1.1 request without a Host header is answered 400
ReadRequest(version, host, path, length, xff) ==
    /\ pc = "accepted"
    /\ req' = [req EXCEPT !.version = version, !.host = host, !.path = path,
                          !.length = length, !.xff = xff,
                          !.server = IF version = "1.1" /\ host = NoHeader
                                     THEN 0 ELSE VirtualHost(host)]
    /\ IF version = "1.1" /\ host = NoHeader
       THEN pc' = "done" /\ outcome' = "400"
       ELSE pc' = "read" /\ outcome' = outcome
    /\ UNCHANGED <<upreq, fails, checked, now, errors>>

\* the location is chosen from the path; with none the proxy answers 404
FindLocation ==
    /\ pc = "read"
    /\ LET loc == Location(req.path)
       IN  /\ req' = [req EXCEPT !.location = loc]
           /\ IF loc = 0
              THEN pc' = "done" /\ outcome' = "404"
              ELSE pc' = "located" /\ outcome' = outcome
    /\ UNCHANGED <<upreq, fails, checked, now, errors>>

\* the length of the body is compared with client_max_body_size (0 would
\* disable the check); a longer body is answered 413
CheckBody ==
    /\ pc = "located"
    /\ IF client_max_body_size > 0 /\ client_max_body_size < req.length
       THEN pc' = "done" /\ outcome' = "413"
       ELSE pc' = "sized" /\ outcome' = outcome
    /\ UNCHANGED <<req, upreq, fails, checked, now, errors>>

\* proxy_pass: a server of the upstream group is picked and the request to
\* it is built; with no usable server the proxy answers 502
Forward ==
    /\ pc = "sized"
    /\ LET p == GetPeer(fails, checked, now)
       IN  IF p = 0
           THEN /\ pc' = "done"
                /\ outcome' = "no live upstreams"
                /\ upreq' = upreq
           ELSE /\ pc' = "upstream"
                /\ outcome' = outcome
                /\ upreq' = [upstream |-> proxy_pass, peer |-> p,
                             addr |-> upstream_servers[p].addr,
                             headers |-> UpstreamHeaders(req)]
    /\ UNCHANGED <<req, fails, checked, now, errors>>

\* the upstream answers and the answer is relayed
UpstreamResponds ==
    /\ pc = "upstream"
    /\ pc' = "done"
    /\ outcome' = "proxied"
    /\ UNCHANGED <<req, upreq, fails, checked, now, errors>>

\* the attempt on the upstream server fails: the proxy answers 502 and logs
\* the error; in a group of several servers the failure is counted
UpstreamFails ==
    /\ pc = "upstream"
    /\ errors < MaxErrors
    /\ pc' = "done"
    /\ outcome' = "bad gateway"
    /\ errors' = errors + 1
    /\ IF Single(upstream_servers)
       THEN UNCHANGED <<fails, checked>>
       ELSE /\ fails' = [fails EXCEPT ![upreq.peer] = @ + 1]
            /\ checked' = [checked EXCEPT ![upreq.peer] = now]
    /\ UNCHANGED <<req, upreq, now>>

\* a second passes
Tick ==
    /\ now < MaxTime
    /\ now' = now + 1
    /\ UNCHANGED <<pc, req, upreq, outcome, fails, checked, errors>>

\* the request is over; the next one may arrive
NextRequest ==
    /\ pc = "done"
    /\ pc' = "idle"
    /\ req' = NoRequest
    /\ upreq' = NoUpstreamRequest
    /\ outcome' = ""
    /\ UNCHANGED <<fails, checked, now, errors>>

-----------------------------------------------------------------------------
(* The keep-alive cache of each worker process                             *)

\* a release that never closes the oldest connection
CacheAfterFree_no_evict(n) == n + 1

\* the number of cached idle connections after one more is released to a
\* cache holding n: a full cache closes its oldest connection first
CacheAfterFree(n) == IF n >= keepalive THEN keepalive ELSE n + 1

\* worker w needs a connection to the upstream: a cached one is taken when
\* there is one, a new one is opened otherwise
GetConnection(w) ==
    /\ LET p == GetPeer(fails, checked, now)
       IN  /\ p # 0
           /\ lastPeer' = upstream_servers[p].addr
    /\ idle' = [idle EXCEPT ![w] = IF @ > 0 THEN @ - 1 ELSE 0]
    /\ UNCHANGED nworkers

\* worker w is done with a connection: it is cached when the upstream left
\* it open (ka), closed otherwise
FreeConnection(w, ka) ==
    /\ idle' = [idle EXCEPT ![w] = IF ka THEN CacheAfterFree(@) ELSE @]
    /\ UNCHANGED <<nworkers, lastPeer>>

\* a cached connection is closed by the upstream or times out
CloseIdle(w) ==
    /\ idle[w] > 0
    /\ idle' = [idle EXCEPT ![w] = @ - 1]
    /\ UNCHANGED <<nworkers, lastPeer>>

-----------------------------------------------------------------------------
(* Specifications                                                          *)

BuildIdle ==
    /\ dirname = <<>> /\ fs = {} /\ modules = {} /\ assets = {}

ProxyIdle ==
    /\ pc = "idle" /\ req = NoRequest /\ upreq = NoUpstreamRequest
    /\ outcome = "" /\ fails = NoFailures /\ checked = NoFailures
    /\ now = 0 /\ errors = 0

CacheIdle ==
    /\ nworkers = 1 /\ idle = [w \in 1..1 |-> 0] /\ lastPeer = ""

\* request handling
Init == BuildIdle /\ ProxyIdle /\ CacheIdle

Next ==
    \/ \E f \in Families, p \in Ports, a \in ClientAddrs :
           Connect(f, p, a) /\ UNCHANGED <<buildVars, cacheVars>>
    \/ \E v \in Versions, h \in Hosts, p \in Paths, n \in Lengths,
          x \in ForwardedFors :
           ReadRequest(v, h, p, n, x) /\ UNCHANGED <<buildVars, cacheVars>>
    \/ FindLocation /\ UNCHANGED <<buildVars, cacheVars>>
    \/ CheckBody /\ UNCHANGED <<buildVars, cacheVars>>
    \/ Forward /\ UNCHANGED <<buildVars, cacheVars>>
    \/ UpstreamResponds /\ UNCHANGED <<buildVars, cacheVars>>
    \/ UpstreamFails /\ UNCHANGED <<buildVars, cacheVars>>
    \/ Tick /\ UNCHANGED <<buildVars, cacheVars>>
    \/ NextRequest /\ UNCHANGED <<buildVars, cacheVars>>

Spec == Init /\ [][Next]_vars

\* the build
InitBuild ==
    /\ dirname \in Dirnames
    /\ fs \in { EntrySources \cup s : s \in SUBSET ImportCandidates }
    /\ ConsistentFs(fs)
    /\ modules = {}
    /\ assets = {}
    /\ ProxyIdle /\ CacheIdle

NextBuild ==
    \/ \E n \in EntryNames : BuildEntry(n) /\ UNCHANGED <<proxyVars, cacheVars>>
    \/ \E n \in EntryNames : ResolveImport(n) /\ UNCHANGED <<proxyVars, cacheVars>>
    \/ Emit /\ UNCHANGED <<proxyVars, cacheVars>>

SpecBuild == InitBuild /\ [][NextBuild]_vars

\* the keep-alive cache
InitCache ==
    /\ nworkers \in 1..MaxWorkers
    /\ idle = [w \in 1..nworkers |-> 0]
    /\ lastPeer = ""
    /\ BuildIdle /\ ProxyIdle

NextCache ==
    \/ \E w \in 1..nworkers : GetConnection(w) /\ UNCHANGED <<buildVars, proxyVars>>
    \/ \E w \in 1..nworkers, ka \in BOOLEAN :
           FreeConnection(w, ka) /\ UNCHANGED <<buildVars, proxyVars>>
    \/ \E w \in 1..nworkers : CloseIdle(w) /\ UNCHANGED <<buildVars, proxyVars>>

SpecCache == InitCache /\ [][NextCache]_vars

-----------------------------------------------------------------------------
(* Properties of the build (SpecBuild)                                     *)

BundleNames ==
    { <<"b","u","i","l","d","e","r",".","b","u","n","d","l","e",".","j","s">>,
      <<"c","o","d","e","l","i","s","t",".","b","u","n","d","l","e",".","j","s">>,
      <<"c","o","d","e","l","i","s","t","-","v","e","r","s","i","o","n",".","b","u","n","d","l","e",".","j","s">>,
      <<"t","r","e","e",".","b","u","n","d","l","e",".","j","s">> }

\* C1: once the build has emitted, every entry name N has exactly one output
\* file, named N.bundle.js, in static/dist/js under the configuration's
\* directory; the emitted names are exactly the four bundle names; and two
\* different entries never share an output file.
C1_OneBundlePerEntry ==
    assets # {} =>
        /\ \A n \in { <<"b","u","i","l","d","e","r">>, <<"c","o","d","e","l","i","s","t">>, <<"c","o","d","e","l","i","s","t","-","v","e","r","s","i","o","n">>, <<"t","r","e","e">> } :
               /\ Cardinality({ a \in assets : a.chunk = n }) = 1
               /\ \A a \in assets :
                      a.chunk = n =>
                          /\ a.file = n \o <<".","b","u","n","d","l","e",".","j","s">>
                          /\ a.dir = dirname \o <<"/","s","t","a","t","i","c","/","d","i","s","t","/","j","s">>
        /\ { a.file : a \in assets } = BundleNames
        /\ \A a, b \in assets :
               a.chunk # b.chunk => <<a.dir, a.file>> # <<b.dir, b.file>>

C1_Emitted ==
    /\ Cardinality(assets) = 4
    /\ \E a \in assets :
           a.chunk = <<"c","o","d","e","l","i","s","t","-","v","e","r","s","i","o","n">> /\ a.file = <<"c","o","d","e","l","i","s","t","-","v","e","r","s","i","o","n",".","b","u","n","d","l","e",".","j","s">>

\* C2: every module whose file path ends in ".jsx" goes through babel-loader,
\* and so do the entry sources of the builder and tree bundles.
C2_JsxTranspiled ==
    \A m \in modules :
        /\ m.resource # NotFound /\ EndsWith(m.resource, <<".","j","s","x">>)
               => m.loaders = <<"babel-loader">>
        /\ m.request = <<".","/","s","t","a","t","i","c","/","s","r","c","/","j","s","/","b","u","i","l","d","e","r","/","i","n","d","e","x",".","j","s","x">>
               => m.loaders = <<"babel-loader">>
        /\ m.request = <<".","/","s","t","a","t","i","c","/","s","r","c","/","j","s","/","t","r","e","e","/","i","n","d","e","x",".","j","s","x">>
               => m.loaders = <<"babel-loader">>

C2_JsxBuilt ==
    /\ \E m \in modules :
           m.chunk = <<"b","u","i","l","d","e","r">> /\ m.issuer = <<>>
               /\ EndsWith(m.resource, <<"b","u","i","l","d","e","r","/","i","n","d","e","x",".","j","s","x">>)
               /\ m.loaders = <<"babel-loader">>
    /\ \E m \in modules :
           m.chunk = <<"t","r","e","e">> /\ m.issuer = <<>> /\ m.loaders = <<"babel-loader">>
    /\ \E m \in modules :
           m.issuer # <<>> /\ EndsWith(m.resource, <<"/","m",".","j","s","x">>)
               /\ m.loaders = <<"babel-loader">>

\* C10: a module whose file path ends in ".js" goes through no loader, and so
\* the entry sources codelist.js and codelist-version.js are bundled as they
\* are.
C10_JsUntransformed ==
    \A m \in modules :
        /\ m.resource # NotFound /\ EndsWith(m.resource, <<".","j","s">>)
               => m.loaders = <<>>
        /\ m.request = <<".","/","s","t","a","t","i","c","/","s","r","c","/","j","s","/","c","o","d","e","l","i","s","t",".","j","s">> => m.loaders = <<>>
        /\ m.request = <<".","/","s","t","a","t","i","c","/","s","r","c","/","j","s","/","c","o","d","e","l","i","s","t","-","v","e","r","s","i","o","n",".","j","s">> => m.loaders = <<>>

C10_JsBuilt ==
    /\ \E m \in modules :
           m.chunk = <<"c","o","d","e","l","i","s","t">> /\ m.issuer = <<>>
               /\ EndsWith(m.resource, <<"/","s","t","a","t","i","c","/","s","r","c","/","j","s","/","c","o","d","e","l","i","s","t",".","j","s">>)
               /\ m.loaders = <<>>
    /\ \E m \in modules :
           m.chunk = <<"c","o","d","e","l","i","s","t","-","v","e","r","s","i","o","n">> /\ m.issuer = <<>> /\ m.loaders = <<>>
    /\ \E m \in modules :
           m.issuer # <<>> /\ EndsWith(m.resource, <<"/","m",".","j","s">>) /\ m.loaders = <<>>

\* the path an import names, and the files that exist, as absolute paths
ImportBase(m) == DirOf(m.issuer) \o <<"/","m">>
ExistingFiles == AbsFiles(dirname, fs)

-----------------------------------------------------------------------------
(* Properties of request handling (Spec)                                   *)

\* C3: connections are accepted on port 80 over IPv4 and over IPv6 and on no
\* other port, and a request that arrives on port 80 for the host
\* codelists.opensafely.org is handled by the server block of that name.
C3_ListensOn80 ==
    /\ pc # "idle" /\ outcome # "refused" => req.port = 80
    /\ pc # "idle" /\ req.port = 80 /\ req.family \in { "ipv4", "ipv6" }
           => outcome # "refused"
    /\ pc \in { "read", "located", "sized", "upstream" }
           /\ req.host = <<"codelists.opensafely.org">>
           => /\ req.port = 80
              /\ req.server \in 1..Len(server_names)
              /\ server_names[req.server] = "codelists.opensafely.org"

C3_HandledOverIPv6 ==
    /\ pc = "read"
    /\ req.family = "ipv6"
    /\ req.port = 80
    /\ req.host = <<"codelists.opensafely.org">>
    /\ req.server = 1

Forwarded == upreq # NoUpstreamRequest

\* C4 as stated: every forwarded request carries the four headers:
\* X-Forwarded-For is the client's X-Forwarded-For with the client address
\* appended (the client address alone when the client sent none),
\* X-Forwarded-Proto is the scheme, X-Real-IP is the client address and Host
\* is the Host header the client sent.
C4_AsStated ==
    Forwarded =>
        LET h == upreq.headers
        IN  /\ { "X-Forwarded-For", "X-Forwarded-Proto", "X-Real-IP", "Host" }
                   \subseteq DOMAIN h
            /\ h["X-Forwarded-For"] =
                   IF req.xff = NoHeader THEN <<req.addr>>
                   ELSE req.xff \o <<req.addr>>
            /\ h["X-Forwarded-Proto"] = <<"http">>
            /\ h["X-Real-IP"] = <<req.addr>>
            /\ h["Host"] = req.host

\* C4 amended: every forwarded request carries X-Forwarded-For (the client's
\* value with the client address appended, or the client address alone),
\* X-Forwarded-Proto (the scheme) and X-Real-IP (the client address); it
\* carries Host, equal to the Host header the client sent, when the client
\* sent one, and no Host header set by the proxy when the client sent none.
C4_ForwardedHeaders ==
    Forwarded =>
        LET h == upreq.headers
        IN  /\ { "X-Forwarded-For", "X-Forwarded-Proto", "X-Real-IP" }
                   \subseteq DOMAIN h
            /\ h["X-Forwarded-For"] =
                   IF req.xff = NoHeader THEN <<req.addr>>
                   ELSE req.xff \o <<req.addr>>
            /\ h["X-Forwarded-Proto"] = <<"http">>
            /\ req.scheme = "http"
            /\ h["X-Real-IP"] = <<req.addr>>
            /\ IF req.host = NoHeader
               THEN "Host" \notin DOMAIN h
               ELSE "Host" \in DOMAIN h /\ h["Host"] = req.host

C4_AppendedToClientValue ==
    /\ Forwarded
    /\ req.xff = <<"192.0.2.1">>
    /\ req.addr = "203.0.113.7"
    /\ req.host = <<"example.org">>
    /\ upreq.headers["X-Forwarded-For"] = <<"192.0.2.1", "203.0.113.7">>
    /\ upreq.headers["Host"] = <<"example.org">>

\* C5: a request whose body is longer than 200 MB ends in an error and is never
\* forwarded; a request whose body is at most 200 MB is not answered 413.
C5_BodyLimit ==
    /\ req.length > 200 * 1024 * 1024
           => /\ ~ Forwarded
              /\ pc \notin { "sized", "upstream" }
              /\ pc = "done" => outcome \in { "400", "413" }
    /\ req.length <= 200 * 1024 * 1024 => outcome # "413"

C5_Rejected ==
    /\ pc = "done"
    /\ outcome = "413"
    /\ req.length = 200 * 1024 * 1024 + 1
    /\ ~ Forwarded

\* C8: whatever its path, a request the server block accepted and whose body
\* passed the limit is forwarded to the upstream group opencodelists: its
\* location is "/", it is never answered by the proxy for want of a location
\* or of a usable server, and it is sent to no other address than the socket.
C8_EveryPathForwarded ==
    /\ outcome \notin { "404", "no live upstreams" }
    /\ pc \in { "located", "sized", "upstream" }
           => req.location # 0 /\ location_prefixes[req.location] = <<"/">>
    /\ pc = "upstream" \/ (pc = "done" /\ outcome \notin { "refused", "400", "413" })
           => /\ Forwarded
              /\ upreq.upstream = "opencodelists"
              /\ upreq.addr = "unix:/tmp/gunicorn-opencodelists.sock"

C8_DeepPathForwarded ==
    /\ pc = "done"
    /\ outcome = "proxied"
    /\ req.path = <<"/","a","/","b">>
    /\ upreq.addr = "unix:/tmp/gunicorn-opencodelists.sock"

-----------------------------------------------------------------------------
(* Properties of the keep-alive cache (SpecCache)                          *)

RECURSIVE SumIdle(_)
SumIdle(w) == IF w = 0 THEN 0 ELSE idle[w] + SumIdle(w - 1)

OneSocketServer ==
    /\ Len(upstream_servers) = 1
    /\ upstream_servers[1].addr = "unix:/tmp/gunicorn-opencodelists.sock"
    /\ lastPeer \in { "", "unix:/tmp/gunicorn-opencodelists.sock" }

====
